---- MODULE Spec2Model ----
(***************************************************************************)
(* Key generation of src/src/keys.rs: keygen, keygen_2018 and rsskeygen,   *)
(* executed statement by statement.                                        *)
(*                                                                         *)
(* A FieldElement is an integer modulo FieldOrder.  A group element is     *)
(* written by its group and its discrete logarithm to a fixed base of that *)
(* group, so that scalar multiplication is multiplication of the logarithm *)
(* modulo the group order (= FieldOrder).  The real order is a 255-bit     *)
(* prime, far above any usize loop count; FieldOrder is therefore kept     *)
(* above 2 * MaxN + 1 so that the exponent counters never wrap here either.*)
(***************************************************************************)
EXTENDS Integers, Naturals, Sequences, FiniteSets, TLC

\* ---------------------------------------------------------------- bounds
MaxN == 4          \* largest count_messages passed by a caller
MaxRand == 2       \* FieldElement::random() returns one of 0..MaxRand
MaxGen == 2        \* the generators of Params have logarithm 1..MaxGen
FieldOrder == 13   \* order of the scalar field and of both groups

\* ------------------------------------------------- field and group library
\* the values FieldElement::random() can return
Rand == 0..MaxRand

FOne == 1 % FieldOrder

\* FieldElement + FieldElement (add_assign_ stores this sum in its receiver)
FAdd(a, b) == (a + b) % FieldOrder

RECURSIVE FPow(_, _)
\* FieldElement::pow(base, exp): base^exp modulo the field order
FPow(base, exp) ==
    IF exp = 0 THEN 1 % FieldOrder
    ELSE (base * FPow(base, exp - 1)) % FieldOrder

\* scalar multiplication of a group element by a field element
GMul(P, s) == [grp |-> P.grp, dl |-> (P.dl * s) % FieldOrder]

\* Params { g: SignatureGroup, g_tilde: VerkeyGroup }
ParamsSet ==
    { [g |-> [grp |-> "SignatureGroup", dl |-> a],
       g_tilde |-> [grp |-> "VerkeyGroup", dl |-> b]] : a \in 1..MaxGen, b \in 1..MaxGen }

NoElem == [grp |-> "none", dl |-> 0]

NoParams == [g |-> NoElem, g_tilde |-> NoElem]

\* ------------------------------------------------------------------ state
VARIABLES
    pc,                \* position of the running call
    fn,                \* the function the caller invoked
    arg_n,             \* the count the caller passed
    count_messages,    \* count_messages as seen by the running body
    params,            \* the &Params argument
    draws,             \* number of FieldElement::random() calls so far
    x,                 \* secret x
    X_tilde,           \* g_tilde * x
    y,                 \* Sigkey.y (keygen)
    Y_tilde,           \* Verkey.Y_tilde (keygen)
    y_rss,             \* SKrss.y (rsskeygen)
    g,                 \* PKrss.g
    g_tilde,           \* PKrss.g_tilde
    i_exponent,        \* exponent counter of the first two rsskeygen loops
    k_exponent,        \* exponent counter of the third rsskeygen loop
    Y_tilde_i,         \* PKrss.Y_tilde_i
    Y_j_1_to_n,        \* PKrss.Y_j_1_to_n
    Y_k_nplus2_to_2n,  \* PKrss.Y_k_nplus2_to_2n
    cur,               \* next value of the running `for` range
    end,               \* exclusive end of the running `for` range
    used               \* exponents handed to FieldElement::pow in the running loop

vars == <<pc, fn, arg_n, count_messages, params, draws, x, X_tilde, y, Y_tilde,
          y_rss, g, g_tilde, i_exponent, k_exponent, Y_tilde_i, Y_j_1_to_n,
          Y_k_nplus2_to_2n, cur, end, used>>

keygenVars == <<y, Y_tilde>>

rssVars == <<y_rss, g, g_tilde, i_exponent, k_exponent, Y_tilde_i, Y_j_1_to_n,
             Y_k_nplus2_to_2n, used>>

Init ==
    /\ pc = "idle"
    /\ fn = "none"
    /\ arg_n = 0
    /\ count_messages = 0
    /\ params = NoParams
    /\ draws = 0
    /\ x = 0
    /\ X_tilde = NoElem
    /\ y = <<>>
    /\ Y_tilde = <<>>
    /\ y_rss = 0
    /\ g = NoElem
    /\ g_tilde = NoElem
    /\ i_exponent = 0
    /\ k_exponent = 0
    /\ Y_tilde_i = <<>>
    /\ Y_j_1_to_n = <<>>
    /\ Y_k_nplus2_to_2n = <<>>
    /\ cur = 0
    /\ end = 0
    /\ used = <<>>

\* ------------------------------------------------------------ helpers
RangeHasNextInclusive(c, e) == c <= e

\* a Rust range c..e yields another value iff c < e
RangeHasNext(c, e) == c < e

KeygenPublicWrongGenerator(p, s) == GMul(p.g, s)

\* keygen: &params.g_tilde * &scalar
KeygenPublic(p, s) == GMul(p.g_tilde, s)

Keygen2018ArgSame(n) == n

\* keygen_2018: the count handed to keygen
Keygen2018Arg(n) == n + 1

ExponentStartZero == 0 % FieldOrder

\* rsskeygen: let mut i_exponent = FieldElement::one()
ExponentStart == FOne

NextExponentDiscarded(e) == e

\* rsskeygen: FieldElement::add_assign_(&mut exponent, &one) adds one in
\* place; the `let` on the same line only rebinds the unit result
NextExponent(e) == FAdd(e, FOne)

\* ------------------------------------------------------------ keygen
\* body of keygen up to the loop head, for the count cm
KeygenEntry(cm, p, xr) ==
    /\ count_messages' = cm
    /\ params' = p
    /\ x' = xr
    /\ X_tilde' = KeygenPublic(p, xr)
    /\ y' = <<>>
    /\ Y_tilde' = <<>>
    /\ cur' = 0
    /\ end' = cm
    /\ draws' = draws + 1
    /\ pc' = "keygen_loop"
    /\ UNCHANGED rssVars

CallKeygen ==
    /\ pc = "idle"
    /\ \E n \in 0..MaxN, p \in ParamsSet, xr \in Rand :
          /\ fn' = "keygen"
          /\ arg_n' = n
          /\ KeygenEntry(n, p, xr)

CallKeygen2018 ==
    /\ pc = "idle"
    /\ \E n \in 0..MaxN, p \in ParamsSet, xr \in Rand :
          /\ fn' = "keygen_2018"
          /\ arg_n' = n
          /\ KeygenEntry(Keygen2018Arg(n), p, xr)

KeygenStep ==
    /\ pc = "keygen_loop"
    /\ RangeHasNext(cur, end)
    /\ \E y_i \in Rand :
          /\ Y_tilde' = Append(Y_tilde, KeygenPublic(params, y_i))
          /\ y' = Append(y, y_i)
    /\ draws' = draws + 1
    /\ cur' = cur + 1
    /\ UNCHANGED <<pc, fn, arg_n, count_messages, params, x, X_tilde, end>>
    /\ UNCHANGED rssVars

KeygenReturn ==
    /\ pc = "keygen_loop"
    /\ ~RangeHasNext(cur, end)
    /\ pc' = "done"
    /\ UNCHANGED <<fn, arg_n, count_messages, params, draws, x, X_tilde, cur, end>>
    /\ UNCHANGED keygenVars
    /\ UNCHANGED rssVars

\* ------------------------------------------------------------ rsskeygen
CallRsskeygen ==
    /\ pc = "idle"
    /\ \E n \in 0..MaxN, p \in ParamsSet, xr \in Rand, yr \in Rand :
          /\ fn' = "rsskeygen"
          /\ arg_n' = n
          /\ count_messages' = n
          /\ params' = p
          /\ x' = xr
          /\ y_rss' = yr
          /\ X_tilde' = GMul(p.g_tilde, xr)
          /\ g' = GMul(p.g, FOne)
          /\ g_tilde' = GMul(p.g_tilde, FOne)
          /\ cur' = 0
          /\ end' = n
    /\ draws' = draws + 2
    /\ Y_tilde_i' = <<>>
    /\ i_exponent' = ExponentStart
    /\ used' = <<>>
    /\ pc' = "rss_loop1"
    /\ UNCHANGED <<k_exponent, Y_j_1_to_n, Y_k_nplus2_to_2n>>
    /\ UNCHANGED keygenVars

RssLoop1Step ==
    /\ pc = "rss_loop1"
    /\ RangeHasNext(cur, end)
    /\ LET y_i == FPow(y_rss, i_exponent)
           g_tilde_y_i == GMul(params.g_tilde, y_i)
       IN  Y_tilde_i' = Append(Y_tilde_i, g_tilde_y_i)
    /\ used' = Append(used, i_exponent)
    /\ i_exponent' = NextExponent(i_exponent)
    /\ cur' = cur + 1
    /\ UNCHANGED <<pc, fn, arg_n, count_messages, params, draws, x, X_tilde, end>>
    /\ UNCHANGED <<y_rss, g, g_tilde, k_exponent, Y_j_1_to_n, Y_k_nplus2_to_2n>>
    /\ UNCHANGED keygenVars

\* the first loop is over; i_exponent is NOT re-initialised for the second
RssLoop1Exit ==
    /\ pc = "rss_loop1"
    /\ ~RangeHasNext(cur, end)
    /\ Y_j_1_to_n' = <<>>
    /\ cur' = 0
    /\ end' = count_messages
    /\ used' = <<>>
    /\ pc' = "rss_loop2"
    /\ UNCHANGED <<fn, arg_n, count_messages, params, draws, x, X_tilde>>
    /\ UNCHANGED <<y_rss, g, g_tilde, i_exponent, k_exponent, Y_tilde_i, Y_k_nplus2_to_2n>>
    /\ UNCHANGED keygenVars

RssLoop2Step ==
    /\ pc = "rss_loop2"
    /\ RangeHasNext(cur, end)
    /\ LET y_i == FPow(y_rss, i_exponent)
           g_y_i == GMul(params.g, y_i)
       IN  Y_j_1_to_n' = Append(Y_j_1_to_n, g_y_i)
    /\ used' = Append(used, i_exponent)
    /\ i_exponent' = NextExponent(i_exponent)
    /\ cur' = cur + 1
    /\ UNCHANGED <<pc, fn, arg_n, count_messages, params, draws, x, X_tilde, end>>
    /\ UNCHANGED <<y_rss, g, g_tilde, k_exponent, Y_tilde_i, Y_k_nplus2_to_2n>>
    /\ UNCHANGED keygenVars

RssLoop2Exit ==
    /\ pc = "rss_loop2"
    /\ ~RangeHasNext(cur, end)
    /\ Y_k_nplus2_to_2n' = <<>>
    /\ k_exponent' = FOne
    /\ cur' = count_messages + 2
    /\ end' = 2 * count_messages
    /\ used' = <<>>
    /\ pc' = "rss_loop3"
    /\ UNCHANGED <<fn, arg_n, count_messages, params, draws, x, X_tilde>>
    /\ UNCHANGED <<y_rss, g, g_tilde, i_exponent, Y_tilde_i, Y_j_1_to_n>>
    /\ UNCHANGED keygenVars

\* the loop body draws a scalar (line 116) that it never uses
RssLoop3Step ==
    /\ pc = "rss_loop3"
    /\ RangeHasNext(cur, end)
    /\ LET y_i == FPow(y_rss, k_exponent)
           g_y_i == GMul(params.g, y_i)
       IN  \E resampled \in Rand :
              Y_k_nplus2_to_2n' = Append(Y_k_nplus2_to_2n, g_y_i)
    /\ draws' = draws + 1
    /\ used' = Append(used, k_exponent)
    /\ k_exponent' = NextExponent(k_exponent)
    /\ cur' = cur + 1
    /\ UNCHANGED <<pc, fn, arg_n, count_messages, params, x, X_tilde, end>>
    /\ UNCHANGED <<y_rss, g, g_tilde, i_exponent, Y_tilde_i, Y_j_1_to_n>>
    /\ UNCHANGED keygenVars

RssReturn ==
    /\ pc = "rss_loop3"
    /\ ~RangeHasNext(cur, end)
    /\ pc' = "done"
    /\ UNCHANGED <<fn, arg_n, count_messages, params, draws, x, X_tilde, cur, end>>
    /\ UNCHANGED keygenVars
    /\ UNCHANGED rssVars

Next ==
    \/ CallKeygen
    \/ CallKeygen2018
    \/ KeygenStep
    \/ KeygenReturn
    \/ CallRsskeygen
    \/ RssLoop1Step
    \/ RssLoop1Exit
    \/ RssLoop2Step
    \/ RssLoop2Exit
    \/ RssLoop3Step
    \/ RssReturn

Spec == Init /\ [][Next]_vars

\* ------------------------------------------------------------ properties
KeygenDone == pc = "done" /\ fn = "keygen"

Keygen2018Done == pc = "done" /\ fn = "keygen_2018"

RssDone == pc = "done" /\ fn = "rsskeygen"

\* the elements of a sequence
Range(s) == { s[i] : i \in 1..Len(s) }

\* C1: when keygen(n, p) has returned, Sigkey.y and Verkey.Y_tilde both have
\* length n, X_tilde = p.g_tilde * x, and Y_tilde[i] = p.g_tilde * y[i] at
\* every index.
C1_KeygenContract ==
    KeygenDone =>
        /\ Len(y) = arg_n
        /\ Len(Y_tilde) = arg_n
        /\ X_tilde = GMul(params.g_tilde, x)
        /\ \A i \in 1..arg_n : Y_tilde[i] = GMul(params.g_tilde, y[i])

\* keygen returned a key with several slots whose secrets differ
C1_Witness ==
    /\ KeygenDone
    /\ arg_n >= 3
    /\ x # 0
    /\ \E i, j \in 1..Len(y) : y[i] # y[j] /\ y[i] # 0 /\ y[j] # 0

\* C2: when rsskeygen(n, params) has returned with n >= 1, no element of
\* Y_j_1_to_n and none of Y_k_nplus2_to_2n equals params.g * y^(n+1).
C2_NoPivotPublished ==
    (RssDone /\ arg_n >= 1) =>
        GMul(params.g, FPow(y_rss, arg_n + 1))
            \notin (Range(Y_j_1_to_n) \cup Range(Y_k_nplus2_to_2n))

\* C3: when rsskeygen(n, params) has returned with n >= 1, the j-th element
\* of Y_j_1_to_n is params.g * y^j for every j in 1..n.
C3_LowFamilyExponents ==
    (RssDone /\ arg_n >= 1) =>
        /\ Len(Y_j_1_to_n) = arg_n
        /\ \A j \in 1..arg_n : Y_j_1_to_n[j] = GMul(params.g, FPow(y_rss, j))

\* C4: when rsskeygen(n, params) has returned with n >= 2, Y_k_nplus2_to_2n
\* is, in order, params.g * y^k for k = n+2, ..., 2n.
C4_HighFamilyExponents ==
    (RssDone /\ arg_n >= 2) =>
        /\ Len(Y_k_nplus2_to_2n) = arg_n - 1
        /\ \A t \in 1..(arg_n - 1) :
              Y_k_nplus2_to_2n[t] = GMul(params.g, FPow(y_rss, arg_n + 1 + t))

\* C5: when rsskeygen(n, params) has returned with n >= 1, the three families
\* have lengths n, n and n-1.
C5_FamilyLengths ==
    (RssDone /\ arg_n >= 1) =>
        /\ Len(Y_tilde_i) = arg_n
        /\ Len(Y_j_1_to_n) = arg_n
        /\ Len(Y_k_nplus2_to_2n) = arg_n - 1

\* C6: when rsskeygen(n, params) has returned with n >= 1, the i-th element
\* of Y_tilde_i is params.g_tilde * y^i for every i in 1..n, y being the one
\* secret SKrss.y.
C6_G2FamilyExponents ==
    (RssDone /\ arg_n >= 1) =>
        /\ Len(Y_tilde_i) = arg_n
        /\ \A i \in 1..arg_n : Y_tilde_i[i] = GMul(params.g_tilde, FPow(y_rss, i))

\* rsskeygen returned a G2 family of several elements that are pairwise
\* different powers of a secret y
C6_Witness ==
    /\ RssDone
    /\ arg_n >= 3
    /\ y_rss = 2
    /\ Cardinality(Range(Y_tilde_i)) = arg_n

\* C7: when keygen_2018(n, p) has returned, the key is the one keygen(n+1, p)
\* builds: count_messages inside keygen was n+1, y and Y_tilde have length
\* n+1, X_tilde = p.g_tilde * x, and every slot, the extra one at 0-based
\* index n included, satisfies Y_tilde[i] = p.g_tilde * y[i].
C7_Keygen2018IsKeygenPlusOne ==
    Keygen2018Done =>
        /\ count_messages = arg_n + 1
        /\ Len(y) = arg_n + 1
        /\ Len(Y_tilde) = arg_n + 1
        /\ X_tilde = GMul(params.g_tilde, x)
        /\ \A i \in 1..(arg_n + 1) : Y_tilde[i] = GMul(params.g_tilde, y[i])

\* keygen_2018 returned a key whose extra slot holds a non-zero secret
C7_Witness ==
    /\ Keygen2018Done
    /\ arg_n >= 2
    /\ Len(y) = arg_n + 1
    /\ y[arg_n + 1] # 0
    /\ Y_tilde[arg_n + 1] = GMul(params.g_tilde, y[arg_n + 1])

\* C8: when rsskeygen(n, params) has returned, exactly two scalars have been
\* drawn from the random source, whatever n is.
C8_TwoDraws ==
    RssDone => draws = 2

\* C9: a call with n = 0 runs to its return without an abort, and builds
\* nothing: throughout keygen(0, p) y and Y_tilde are empty, throughout
\* rsskeygen(0, p) the three families are empty and X_tilde = g_tilde * x,
\* and no loop of either call is ever entered.
C9_ZeroSlots ==
    (arg_n = 0 /\ fn \in {"keygen", "rsskeygen"}) =>
        /\ pc \in {"keygen_loop", "rss_loop1", "rss_loop2", "rss_loop3", "done"}
        /\ cur >= end
        /\ y = <<>>
        /\ Y_tilde = <<>>
        /\ Y_tilde_i = <<>>
        /\ Y_j_1_to_n = <<>>
        /\ Y_k_nplus2_to_2n = <<>>
        /\ X_tilde = GMul(params.g_tilde, x)

\* rsskeygen(0, p) returned: the third range started at 2 and ended at 0
C9_Witness ==
    /\ RssDone
    /\ arg_n = 0
    /\ cur = 2
    /\ end = 0
    /\ x # 0

\* C10: in each rsskeygen loop the exponent handed to pow at an iteration is
\* the exponent of the iteration before it plus one, and no exponent is used
\* twice within one loop.
C10_ExponentAdvances ==
    /\ \A t \in 1..(Len(used) - 1) : used[t + 1] = FAdd(used[t], FOne)
    /\ \A s, t \in 1..Len(used) : s # t => used[s] # used[t]

\* the third loop (the shortest) has run at least two iterations
C10_Witness ==
    /\ pc = "rss_loop3"
    /\ Len(used) >= 2
    /\ Len(Y_k_nplus2_to_2n) = Len(used)

====
